---- MODULE Spec2Model ----
(***************************************************************************)
(* A model of the per-persona knowledge base of local-rag-persona-          *)
(* simulator: RAGPipeline and PersonaKnowledgeBase (core/rag.py) over the   *)
(* files and Chroma databases they keep on disk.                            *)
(*                                                                          *)
(* Storage semantics assumed of chromadb / langchain (not in the            *)
(* repository):                                                             *)
(*  - chromadb.PersistentClient(path) creates the directory `path` and      *)
(*    serves the database stored IN that directory; databases at different  *)
(*    paths share no collection.                                            *)
(*  - Chroma(client, collection_name) does get_or_create_collection.        *)
(*  - a collection has an id that is fixed when it is created; a Chroma     *)
(*    object keeps the id of the collection it opened, and every call       *)
(*    through an id whose collection was deleted raises.                    *)
(*  - client.delete_collection(name) raises when there is no such           *)
(*    collection.                                                           *)
(*  - add_texts stores one record per text under a fresh id (no             *)
(*    deduplication); a query returns the min(k, n) nearest records.        *)
(* Strings the code computes on are sequences of one-character strings.     *)
(***************************************************************************)
EXTENDS Integers, Sequences, FiniteSets, TLC

\* ------------------------------------------------------------------ bounds
MaxDocs == 2          \* records one collection may hold
MaxCreated == 1       \* collections ever created in one database
MaxNameLen == 3       \* characters of a persona name given to the key derivation
MaxTokens == 5        \* tokens of a text given to split_into_chunks
MaxChunk == 4         \* largest chunk_size and overlap given to split_into_chunks
MaxSegs == 2          \* segments of one caption event
MaxLines == 5         \* lines of a text given to _parse_srt_subtitles
MaxTextLen == 5       \* characters of a text, and max_length, given to truncate_text
MaxHistory == 4       \* messages of one chat history
MaxLangs == 2         \* languages of one caption mapping

\* --------------------------------------------------------------- constants
RetrievalTopK == 5    \* Settings.retrieval_top_k

None == 0             \* no Chroma object (self._vectorstore = None), no value returned

\* ------------------------------------------------------------------ strings
Str_persona_ == <<"p", "e", "r", "s", "o", "n", "a", "_">>

\* str.lower() on the alphabet of the model
LowerChar(c) ==
    CASE c = "A" -> "a"
      [] c = "B" -> "b"
      [] OTHER -> c

Lower(s) == [i \in 1..Len(s) |-> LowerChar(s[i])]

\* str.replace(old, new), old not empty: every occurrence, left to right
RECURSIVE Replace(_, _, _)
Replace(s, old, new) ==
    IF Len(s) < Len(old) THEN s
    ELSE IF SubSeq(s, 1, Len(old)) = old
    THEN new \o Replace(SubSeq(s, Len(old) + 1, Len(s)), old, new)
    ELSE <<Head(s)>> \o Replace(Tail(s), old, new)

\* str.startswith(prefix)
StartsWith(s, prefix) ==
    Len(s) >= Len(prefix) /\ SubSeq(s, 1, Len(prefix)) = prefix

\* f"persona_{persona_name.replace(' ', '_').lower()}"
CollectionName(persona_name) ==
    Str_persona_ \o Lower(Replace(persona_name, <<" ">>, <<"_">>))

\* the same expression as written in delete_persona and in persona_exists
DeletePersonaKey(persona_name) ==
    Str_persona_ \o Lower(Replace(persona_name, <<" ">>, <<"_">>))

PersonaExistsKey(persona_name) ==
    Str_persona_ \o Lower(Replace(persona_name, <<" ">>, <<"_">>))

\* persona_name.replace(" ", "_"): the stem of the persona's metadata file
SafeName(persona_name) == Replace(persona_name, <<" ">>, <<"_">>)

\* --------------------------------------------------------------- the inputs
\* "Al" and "b o"
PersonaNames == { <<"A", "l">>, <<"b", " ", "o">> }

CollectionNames == { CollectionName(n) : n \in PersonaNames }

PipelineIds == {1, 2}

\* A text is given by the chunks RecursiveCharacterTextSplitter.split_text
\* cuts it into (the splitter is langchain's, a function of the text alone).
Texts == { <<>>, <<"x", "y">> }

\* the transcript files on disk: path stem -> content; any other path is missing
TranscriptPaths == { "t1", "gone" }
TranscriptExists(path) == path = "t1"
TranscriptText(path) == <<"x">>

Queries == { "x", "y" }

\* the k of a search; None: the caller passes no k
TopKs == { None, 1, 2 }

\* Where a call fails: nowhere; in chromadb.PersistentClient(...), before the
\* directory exists; in self.embeddings, evaluated after the client has made
\* the directory and before Chroma(...) gets or creates the collection; or in
\* the call made on the opened collection.
Failures == { "none", "client", "embed", "call" }

VARIABLES
    chromaDirs,     \* names of the directories under Settings.get_chroma_path()
    rootDb,         \* names of the collections of the database at get_chroma_path() itself
    personaDb,      \* [directory name -> the collection of the database in that directory]
    personaFiles,   \* stems of the .json files under Settings.get_persona_path()
    pipelines,      \* [PipelineIds -> RAGPipeline object]
    returned,       \* history: per collection name, the sum of the values the adds
                    \* returned since a collection of that name was last deleted
    transcriptFiles,\* the files under Settings.get_transcript_path(): name and content
    chatbots,       \* [ChatbotIds -> PersonaChatbot object]; its rag is pipelines[i]
    last            \* the last call: its arguments, its outcome, the state it started from

vars == <<chromaDirs, rootDb, personaDb, personaFiles, pipelines, returned,
          transcriptFiles, chatbots, last>>

\* The database in a persona directory holds at most the one collection named
\* like the directory: coll is its id (None: no collection), created counts the
\* collections ever created there (ids are never reused), docs are its records.
NoCollection(created) == [coll |-> None, created |-> created, docs |-> <<>>]

\* RAGPipeline.__init__, called as every caller of the repository calls it
\* (cli.py, chatbot.py, PersonaKnowledgeBase.get_persona_pipeline): with the
\* persona name alone, so that collection_name is the derived key.
RAGPipeline(persona_name) ==
    [persona_name |-> persona_name,
     collection_name |-> CollectionName(persona_name),
     vectorstore |-> None]

\* the chatbots of the model: chatbot i is built over pipeline i
ChatbotIds == { 1 }

\* PersonaChatbot.__init__, for the rag pipeline `self.rag` of the same name:
\* the persona is what _load_persona finds among the persona files (without a
\* file: None, here the empty sequence), the chat history is empty. The file
\* of a persona is the one create_persona wrote for that name.
LoadPersona(persona_name, files) ==
    IF SafeName(persona_name) \in files THEN << [name |-> persona_name] >> ELSE <<>>

PersonaChatbot(persona) == [persona |-> persona, chat_history |-> <<>>]

NoCall == [op |-> "init"]

Init ==
    /\ chromaDirs = {}
    /\ rootDb = {}
    /\ personaDb = [d \in CollectionNames |-> NoCollection(0)]
    /\ personaFiles = {}
    /\ pipelines \in [PipelineIds -> { RAGPipeline(n) : n \in PersonaNames }]
    /\ returned = [d \in CollectionNames |-> 0]
    /\ transcriptFiles = {}
    /\ chatbots = [i \in ChatbotIds |-> PersonaChatbot(<<>>)]
    /\ last = NoCall

\* ------------------------------------------------- RAGPipeline.vectorstore
\* The property `vectorstore` (with _create_vectorstore): a pipeline without a
\* cached Chroma object opens chromadb.PersistentClient(chroma_path /
\* collection_name), which creates that directory, and Chroma(...) gets or
\* creates the collection; a cached object is returned as it is.
OpenDirs(p, dirs) ==
    IF p.vectorstore = None THEN dirs \cup {p.collection_name} ELSE dirs

OpenDb(p, db) ==
    LET c == db[p.collection_name]
    IN  IF p.vectorstore = None /\ c.coll = None
        THEN [db EXCEPT ![p.collection_name] =
                 [coll |-> c.created + 1, created |-> c.created + 1, docs |-> <<>>]]
        ELSE db

OpenPipeline(p, db) ==
    IF p.vectorstore = None
    THEN [p EXCEPT !.vectorstore = OpenDb(p, db)[p.collection_name].coll]
    ELSE p

\* the storage after `self.vectorstore` was evaluated by pipeline p
Opened(p, dirs, db) ==
    [dirs |-> OpenDirs(p, dirs), db |-> OpenDb(p, db), p |-> OpenPipeline(p, db)]

\* the collection a Chroma object holds still exists
Live(p, db) ==
    /\ p.vectorstore # None
    /\ db[p.collection_name].coll = p.vectorstore

\* the outcome of a call: the storage and the pipeline it leaves, the exception
\* it raised ("none": it returned) and the value it returned
Outcome(dirs, db, p, raised, ret) ==
    [dirs |-> dirs, db |-> db, p |-> p, raised |-> raised, ret |-> ret]

\* `self.vectorstore` raised: nothing is cached; the directory is there once
\* the client was made
OpenFailed(p, dirs, db, fail) ==
    Outcome(IF fail = "embed" THEN OpenDirs(p, dirs) ELSE dirs, db, p,
            "StorageError", None)

\* a call may fail at the open only if it opens, and the model creates at most
\* MaxCreated collections per database
CanOpen(p, db, fail) ==
    /\ fail \in {"client", "embed"} => p.vectorstore = None
    /\ (fail \in {"none", "call"} /\ p.vectorstore = None
            /\ db[p.collection_name].coll = None)
           => db[p.collection_name].created < MaxCreated

\* ----------------------------------------------------- RAGPipeline.add_text
\* the metadatas list of add_text / add_transcript, zipped with the chunks
Records(p, chunks, source) ==
    [j \in 1..Len(chunks) |->
        [content |-> chunks[j],
         metadata |-> [source |-> source, chunk_id |-> j - 1, persona |-> p.persona_name]]]

\* chunks = split_text(text); self.vectorstore.add_texts(chunks, metadatas);
\* return len(chunks). add_texts of an empty list raises: chromadb refuses an
\* upsert without ids ("Expected IDs to be a non-empty list").
AddChunksMutantDedup(p, dirs, db, chunks, source, fail) ==
    LET o == Opened(p, dirs, db)
        cn == p.collection_name
        recs == Records(p, chunks, source)
        old == o.db[cn].docs
        fresh == SelectSeq(recs, LAMBDA r : \A j \in 1..Len(old) : old[j] # r)
    IN  IF fail \in {"client", "embed"} THEN OpenFailed(p, dirs, db, fail)
        ELSE IF chunks = <<>>
        THEN Outcome(o.dirs, o.db, o.p, "ValueError", None)
        ELSE IF fail = "call" \/ ~Live(o.p, o.db)
        THEN Outcome(o.dirs, o.db, o.p, "StorageError", None)
        ELSE Outcome(o.dirs, [o.db EXCEPT ![cn].docs = @ \o fresh], o.p,
                     "none", Len(chunks))

AddChunks(p, dirs, db, chunks, source, fail) ==
    LET o == Opened(p, dirs, db)
        cn == p.collection_name
        recs == Records(p, chunks, source)
    IN  IF fail \in {"client", "embed"} THEN OpenFailed(p, dirs, db, fail)
        ELSE IF chunks = <<>>
        THEN Outcome(o.dirs, o.db, o.p, "ValueError", None)
        ELSE IF fail = "call" \/ ~Live(o.p, o.db)
        THEN Outcome(o.dirs, o.db, o.p, "StorageError", None)
        ELSE Outcome(o.dirs, [o.db EXCEPT ![cn].docs = @ \o recs], o.p,
                     "none", Len(chunks))

\* the records fit the model's bound
Fits(p, db, chunks) == Len(db[p.collection_name].docs) + Len(chunks) <= MaxDocs

\* the record of a call of pipeline i, with the state the call started from
Call(op, i, args, o) ==
    [op |-> op, pipeline |-> i, persona_name |-> pipelines[i].persona_name,
     collection_name |-> pipelines[i].collection_name, args |-> args,
     raised |-> o.raised, ret |-> o.ret,
     pre |-> [dirs |-> chromaDirs,
              coll |-> personaDb[pipelines[i].collection_name],
              vectorstore |-> pipelines[i].vectorstore]]

\* a call of pipeline i ends with outcome o
Commit(i, o, call) ==
    /\ chromaDirs' = o.dirs
    /\ personaDb' = o.db
    /\ pipelines' = [pipelines EXCEPT ![i] = o.p]
    /\ last' = call
    /\ UNCHANGED <<rootDb, personaFiles, transcriptFiles, chatbots>>

\* an add that returned n
Returned(cn, raised, n) ==
    IF raised = "none" THEN [returned EXCEPT ![cn] = @ + n] ELSE returned

AddText(i, text, source, fail) ==
    LET p == pipelines[i]
        o == AddChunks(p, chromaDirs, personaDb, text, source, fail)
    IN  /\ CanOpen(p, personaDb, fail)
        /\ Fits(p, personaDb, text)
        /\ text = <<>> => fail # "call"
        /\ Commit(i, o, Call("add_text", i, [text |-> text, source |-> source, fail |-> fail], o))
        /\ returned' = Returned(p.collection_name, o.raised, o.ret)

\* RAGPipeline.add_transcript: a missing file raises before anything is opened
AddTranscriptOutcome(p, dirs, db, path, source_name, fail) ==
    IF ~TranscriptExists(path)
    THEN Outcome(dirs, db, p, "FileNotFoundError", None)
    ELSE AddChunks(p, dirs, db, TranscriptText(path),
                   IF source_name # "" THEN source_name ELSE path, fail)

AddTranscript(i, path, source_name, fail) ==
    LET p == pipelines[i]
        o == AddTranscriptOutcome(p, chromaDirs, personaDb, path, source_name, fail)
    IN  /\ TranscriptExists(path) => CanOpen(p, personaDb, fail) /\ Fits(p, personaDb, TranscriptText(path))
        /\ ~TranscriptExists(path) => fail = "none"
        /\ Commit(i, o, Call("add_transcript", i,
                             [path |-> path, source_name |-> source_name, fail |-> fail], o))
        /\ returned' = Returned(p.collection_name, o.raised, o.ret)

\* ------------------------------------------- RAGPipeline.similarity_search
Min(a, b) == IF a <= b THEN a ELSE b

\* The distance of the embeddings of a query and a chunk (the embedding model
\* is external): 0 for the query's own text, 1 for any other.
Score(query, content) == IF content = query THEN 0 ELSE 1

\* similarity_search_with_score: the k nearest records, nearest first, records
\* at the same distance in insertion order
QueryCollection(docs, query, k) ==
    LET scored == [j \in 1..Len(docs) |->
                      [content |-> docs[j].content, metadata |-> docs[j].metadata,
                       score |-> Score(query, docs[j].content)]]
        ranked == SelectSeq(scored, LAMBDA r : r.score = 0)
                      \o SelectSeq(scored, LAMBDA r : r.score = 1)
    IN  SubSeq(ranked, 1, Min(k, Len(ranked)))

\* the records of the collections named in names, one collection after another
RECURSIVE DocsOf(_, _)
DocsOf(db, names) ==
    IF names = {} THEN <<>>
    ELSE LET cn == CHOOSE c \in names : TRUE
         IN  db[cn].docs \o DocsOf(db, names \ {cn})

SimilaritySearchMutantAllCollections(p, dirs, db, query, k, fail) ==
    LET k1 == IF k = None THEN RetrievalTopK ELSE k
        o == Opened(p, dirs, db)
    IN  IF fail \in {"client", "embed"} THEN OpenFailed(p, dirs, db, fail)
        ELSE IF fail = "call" \/ ~Live(o.p, o.db)
        THEN Outcome(o.dirs, o.db, o.p, "StorageError", None)
        ELSE Outcome(o.dirs, o.db, o.p, "none",
                     QueryCollection(DocsOf(o.db, DOMAIN o.db), query, k1))

\* k = None stands for Python's None (and 0): `k or retrieval_top_k`
SimilaritySearch(p, dirs, db, query, k, fail) ==
    LET k1 == IF k = None THEN RetrievalTopK ELSE k
        o == Opened(p, dirs, db)
    IN  IF fail \in {"client", "embed"} THEN OpenFailed(p, dirs, db, fail)
        ELSE IF fail = "call" \/ ~Live(o.p, o.db)
        THEN Outcome(o.dirs, o.db, o.p, "StorageError", None)
        ELSE Outcome(o.dirs, o.db, o.p, "none",
                     QueryCollection(o.db[p.collection_name].docs, query, k1))

DoSimilaritySearch(i, query, k, fail) ==
    LET p == pipelines[i]
        o == SimilaritySearch(p, chromaDirs, personaDb, query, k, fail)
    IN  /\ CanOpen(p, personaDb, fail)
        /\ Commit(i, o, Call("similarity_search", i,
                             [query |-> query, k |-> k, fail |-> fail], o))
        /\ UNCHANGED returned

\* ---------------------------------------- RAGPipeline.get_relevant_context
\* A rendered string is the sequence of its pieces.
NoContext == << "No relevant context found." >>

\* r['metadata'].get('source', 'unknown')
SourceOf(metadata) ==
    IF "source" \in DOMAIN metadata THEN metadata.source ELSE "unknown"

\* f"[Source: {source}]\n{content}"
ContextPart(r) == << "[Source: ", SourceOf(r.metadata), "]\n", r.content >>

\* sep.join(parts)
RECURSIVE Join(_, _)
Join(parts, sep) ==
    IF parts = <<>> THEN <<>>
    ELSE IF Len(parts) = 1 THEN parts[1]
    ELSE parts[1] \o <<sep>> \o Join(Tail(parts), sep)

GetRelevantContextMutantNoSentinel(p, dirs, db, query, k, fail) ==
    LET o == SimilaritySearch(p, dirs, db, query, k, fail)
    IN  IF o.raised # "none" THEN o
        ELSE [o EXCEPT !.ret =
                 Join([j \in 1..Len(o.ret) |-> ContextPart(o.ret[j])], "\n\n---\n\n")]

GetRelevantContext(p, dirs, db, query, k, fail) ==
    LET o == SimilaritySearch(p, dirs, db, query, k, fail)
    IN  IF o.raised # "none" THEN o
        ELSE IF o.ret = <<>> THEN [o EXCEPT !.ret = NoContext]
        ELSE [o EXCEPT !.ret =
                 Join([j \in 1..Len(o.ret) |-> ContextPart(o.ret[j])], "\n\n---\n\n")]

DoGetRelevantContext(i, query, k, fail) ==
    LET p == pipelines[i]
        o == GetRelevantContext(p, chromaDirs, personaDb, query, k, fail)
    IN  /\ CanOpen(p, personaDb, fail)
        /\ Commit(i, o, Call("get_relevant_context", i,
                             [query |-> query, k |-> k, fail |-> fail], o))
        /\ UNCHANGED returned

\* ---------------------------------------- RAGPipeline.get_collection_stats
Stats(p, count) ==
    [persona |-> p.persona_name, collection_name |-> p.collection_name,
     document_count |-> count]

GetCollectionStatsMutantNoExcept(p, dirs, db, fail) ==
    LET o == Opened(p, dirs, db)
    IN  IF fail \in {"client", "embed"} THEN OpenFailed(p, dirs, db, fail)
        ELSE IF fail = "call" \/ ~Live(o.p, o.db)
        THEN Outcome(o.dirs, o.db, o.p, "StorageError", None)
        ELSE Outcome(o.dirs, o.db, o.p, "none",
                     Stats(p, Len(o.db[p.collection_name].docs)))

\* try: count = self.vectorstore._collection.count() ... except Exception: 0
GetCollectionStats(p, dirs, db, fail) ==
    LET o == Opened(p, dirs, db)
    IN  IF fail \in {"client", "embed"}
        THEN [OpenFailed(p, dirs, db, fail) EXCEPT !.raised = "none", !.ret = Stats(p, 0)]
        ELSE IF fail = "call" \/ ~Live(o.p, o.db)
        THEN Outcome(o.dirs, o.db, o.p, "none", Stats(p, 0))
        ELSE Outcome(o.dirs, o.db, o.p, "none",
                     Stats(p, Len(o.db[p.collection_name].docs)))

DoGetCollectionStats(i, fail) ==
    LET p == pipelines[i]
        o == GetCollectionStats(p, chromaDirs, personaDb, fail)
    IN  /\ CanOpen(p, personaDb, fail)
        /\ Commit(i, o, Call("get_collection_stats", i, [fail |-> fail], o))
        /\ UNCHANGED returned

\* ------------------------------------------------------- RAGPipeline.reset
\* With a cached Chroma object: _client.delete_collection(collection_name),
\* by name, then self._vectorstore = None. Without one: nothing.
Reset(p, dirs, db, fail) ==
    LET cn == p.collection_name
    IN  IF p.vectorstore = None THEN Outcome(dirs, db, p, "none", None)
        ELSE IF fail = "call" \/ db[cn].coll = None
        THEN Outcome(dirs, db, p, "StorageError", None)
        ELSE Outcome(dirs, [db EXCEPT ![cn] = NoCollection(@.created)],
                     [p EXCEPT !.vectorstore = None], "none", None)

DoReset(i, fail) ==
    LET p == pipelines[i]
        o == Reset(p, chromaDirs, personaDb, fail)
    IN  /\ fail \in {"none", "call"}
        /\ fail = "call" => p.vectorstore # None
        /\ Commit(i, o, Call("reset", i, [fail |-> fail], o))
        /\ returned' = IF o.db[p.collection_name].coll = None
                       THEN [returned EXCEPT ![p.collection_name] = 0]
                       ELSE returned

\* --------------------------------------------------- PersonaKnowledgeBase
\* The knowledge base opens chromadb.PersistentClient(get_chroma_path()): the
\* database at the root of the chroma directory, not the one in a persona's
\* directory.
KbFailures == { "none", "open", "call", "unlink" }

\* item.name.replace("persona_", "").replace("_", " ")
PersonaOfDir(name) == Replace(Replace(name, Str_persona_, <<>>), <<"_">>, <<" ">>)

\* the orders in which iterdir() may yield the directories
DirOrders(dirs) ==
    { s \in [1..Cardinality(dirs) -> dirs] :
        \A a, b \in 1..Cardinality(dirs) : a # b => s[a] # s[b] }

\* PersonaKnowledgeBase.list_personas, for one order of iterdir()
ListPersonas(order) ==
    LET kept == SelectSeq(order, LAMBDA d : StartsWith(d, Str_persona_))
    IN  [j \in 1..Len(kept) |-> PersonaOfDir(kept[j])]

\* the record of a call of the knowledge base for persona_name
KbCall(op, persona_name, fail, ret) ==
    [op |-> op, persona_name |-> persona_name,
     collection_name |-> CollectionName(persona_name),
     args |-> [fail |-> fail], raised |-> "none", ret |-> ret,
     pre |-> [dirs |-> chromaDirs,
              coll |-> personaDb[CollectionName(persona_name)],
              file |-> SafeName(persona_name) \in personaFiles,
              root |-> rootDb]]

DoListPersonas(order) ==
    /\ last' = [op |-> "list_personas", raised |-> "none", ret |-> ListPersonas(order),
                pre |-> [dirs |-> chromaDirs]]
    /\ UNCHANGED <<chromaDirs, rootDb, personaDb, personaFiles, pipelines, returned,
                 transcriptFiles, chatbots>>

\* PersonaKnowledgeBase.persona_exists
PersonaExists(persona_name, root, fail) ==
    IF fail \in {"open", "call"} THEN FALSE
    ELSE PersonaExistsKey(persona_name) \in root

DoPersonaExists(persona_name, fail) ==
    /\ fail \in {"none", "open", "call"}
    /\ last' = KbCall("persona_exists", persona_name, fail,
                      PersonaExists(persona_name, rootDb, fail))
    /\ UNCHANGED <<chromaDirs, rootDb, personaDb, personaFiles, pipelines, returned,
                 transcriptFiles, chatbots>>

\* PersonaKnowledgeBase.delete_persona: the collections of the root database
\* and the persona files it leaves, and the value it returns
DeletePersonaMutantUnlinkFirst(persona_name, root, files, fail) ==
    LET cn == CollectionName(persona_name)
        files1 == files \ {SafeName(persona_name)}
    IN  IF fail = "open" THEN [root |-> root, files |-> files, ret |-> FALSE]
        ELSE IF fail = "call" \/ cn \notin root
        THEN [root |-> root, files |-> files1, ret |-> FALSE]
        ELSE [root |-> root \ {cn}, files |-> files1, ret |-> TRUE]

DeletePersona(persona_name, root, files, fail) ==
    LET cn == DeletePersonaKey(persona_name)
        safe == SafeName(persona_name)
    IN  IF fail = "open" THEN [root |-> root, files |-> files, ret |-> FALSE]
        ELSE IF fail = "call" \/ cn \notin root
        THEN [root |-> root, files |-> files, ret |-> FALSE]
        ELSE IF safe \in files /\ fail = "unlink"
        THEN [root |-> root \ {cn}, files |-> files, ret |-> FALSE]
        ELSE [root |-> root \ {cn}, files |-> files \ {safe}, ret |-> TRUE]

DoDeletePersona(persona_name, fail) ==
    LET o == DeletePersona(persona_name, rootDb, personaFiles, fail)
    IN  /\ fail = "unlink" =>
               /\ CollectionName(persona_name) \in rootDb
               /\ SafeName(persona_name) \in personaFiles
        /\ rootDb' = o.root
        /\ personaFiles' = o.files
        /\ last' = KbCall("delete_persona", persona_name, fail, o.ret)
        /\ UNCHANGED <<chromaDirs, personaDb, pipelines, returned, transcriptFiles, chatbots>>

\* ------------------------------------------ PersonaChatbot.create_persona
\* for path in transcript_paths: rag.add_transcript(path), on a new pipeline
\* (ret: the sum of the values the calls that returned have returned)
RECURSIVE AddTranscriptsMutantSkipFailed(_, _, _, _, _)
AddTranscriptsMutantSkipFailed(p, dirs, db, paths, sum) ==
    IF paths = <<>> THEN Outcome(dirs, db, p, "none", sum)
    ELSE LET o == AddTranscriptOutcome(p, dirs, db, Head(paths), "", "none")
         IN  IF o.raised # "none"
             THEN AddTranscriptsMutantSkipFailed(p, dirs, db, Tail(paths), sum)
             ELSE AddTranscriptsMutantSkipFailed(o.p, o.dirs, o.db, Tail(paths), sum + o.ret)

RECURSIVE AddTranscripts(_, _, _, _, _)
AddTranscripts(p, dirs, db, paths, sum) ==
    IF paths = <<>> THEN Outcome(dirs, db, p, "none", sum)
    ELSE LET o == AddTranscriptOutcome(p, dirs, db, Head(paths), "", "none")
         IN  IF o.raised # "none" THEN [o EXCEPT !.ret = sum]
             ELSE AddTranscripts(o.p, o.dirs, o.db, Tail(paths), sum + o.ret)

PathLists == { <<>>, <<"t1">>, <<"t1", "gone">>, <<"gone", "t1">> }

\* the chunks of the paths that exist
RECURSIVE ChunksOf(_)
ChunksOf(paths) ==
    IF paths = <<>> THEN <<>>
    ELSE (IF TranscriptExists(Head(paths)) THEN TranscriptText(Head(paths)) ELSE <<>>)
             \o ChunksOf(Tail(paths))

CreatePersona(name, paths) ==
    LET p == RAGPipeline(name)
        o == AddTranscripts(p, chromaDirs, personaDb, paths, 0)
    IN  /\ CanOpen(p, personaDb, "none")
        /\ Fits(p, personaDb, ChunksOf(paths))
        /\ chromaDirs' = o.dirs
        /\ personaDb' = o.db
        /\ personaFiles' = IF o.raised = "none"
                           THEN personaFiles \cup {SafeName(name)}
                           ELSE personaFiles
        /\ last' = [op |-> "create_persona", persona_name |-> name,
                    collection_name |-> p.collection_name,
                    args |-> [paths |-> paths], raised |-> o.raised,
                    ret |-> IF o.raised = "none"
                            THEN [name |-> name, sources |-> paths] ELSE None,
                    pre |-> [dirs |-> chromaDirs, coll |-> personaDb[p.collection_name],
                             file |-> SafeName(name) \in personaFiles]]
        /\ returned' = [returned EXCEPT ![p.collection_name] = @ + o.ret]
        /\ UNCHANGED <<rootDb, pipelines, transcriptFiles, chatbots>>

\* ------------------------------------------------ the functions of the text
\* The persona names given to the key derivation: every string of at most
\* MaxNameLen characters over this alphabet.
KeyAlphabet == { "A", "a", "b", " " }

KeyNames == UNION { [1..n -> KeyAlphabet] : n \in 0..MaxNameLen }

\* the key as each of the three places of rag.py derives it
CollectionKeys(persona_name) ==
    [pipeline |-> RAGPipeline(persona_name).collection_name,
     persona_exists |-> PersonaExistsKey(persona_name),
     delete_persona |-> DeletePersonaKey(persona_name)]

DoCollectionKeys(persona_name) ==
    /\ last' = [op |-> "collection_name", args |-> [persona_name |-> persona_name],
                raised |-> "none", ret |-> CollectionKeys(persona_name)]
    /\ UNCHANGED <<chromaDirs, rootDb, personaDb, personaFiles, pipelines, returned,
                 transcriptFiles, chatbots>>

\* The directories list_personas may find: the directories of the collections
\* of the personas "x", "persona x" and "a b".
ListedNames ==
    { <<"x">>, <<"p", "e", "r", "s", "o", "n", "a", " ", "x">>, <<"a", " ", "b">> }

ListedDirs == { CollectionName(n) : n \in ListedNames }

\* str.isspace() on the alphabet of the model
IsSpace(c) == c \in { " ", "\n" }

\* str.strip()
RECURSIVE LStrip(_)
LStrip(s) == IF s # <<>> /\ IsSpace(Head(s)) THEN LStrip(Tail(s)) ELSE s

RECURSIVE RStrip(_)
RStrip(s) ==
    IF s # <<>> /\ IsSpace(s[Len(s)]) THEN RStrip(SubSeq(s, 1, Len(s) - 1)) ELSE s

Strip(s) == RStrip(LStrip(s))

\* str.split(): the maximal runs of characters that are not whitespace
RECURSIVE SplitFrom(_, _, _)
SplitFrom(s, word, words) ==
    LET done == IF word = <<>> THEN words ELSE Append(words, word)
    IN  IF s = <<>> THEN done
        ELSE IF IsSpace(Head(s)) THEN SplitFrom(Tail(s), <<>>, done)
        ELSE SplitFrom(Tail(s), Append(word, Head(s)), words)

Split(s) == SplitFrom(s, <<>>, <<>>)

\* range(start, stop, step), step > 0
RECURSIVE Range(_, _, _)
Range(start, stop, step) ==
    IF start >= stop THEN <<>>
    ELSE <<start>> \o Range(start + step, stop, step)

\* seq[i:j], 0 <= i <= j
Slice(seq, i, j) == SubSeq(seq, i + 1, Min(j, Len(seq)))

\* utils/text_utils.py split_into_chunks
SplitIntoChunksMutantNoNegativeCheck(text, chunk_size, overlap) ==
    IF chunk_size <= 0 THEN [raised |-> "ValueError", ret |-> None]
    ELSE IF overlap >= chunk_size THEN [raised |-> "ValueError", ret |-> None]
    ELSE LET words == Split(text)
             starts == Range(0, Len(words), chunk_size - overlap)
         IN  [raised |-> "none",
              ret |-> [j \in 1..Len(starts) |->
                          Join(Slice(words, starts[j], starts[j] + chunk_size), " ")]]

SplitIntoChunksMutantNoOverlapInChunk(text, chunk_size, overlap) ==
    IF chunk_size <= 0 THEN [raised |-> "ValueError", ret |-> None]
    ELSE IF overlap < 0 \/ overlap >= chunk_size
    THEN [raised |-> "ValueError", ret |-> None]
    ELSE LET words == Split(text)
             starts == Range(0, Len(words), chunk_size - overlap)
         IN  [raised |-> "none",
              ret |-> [j \in 1..Len(starts) |->
                          Join(Slice(words, starts[j], starts[j] + chunk_size - overlap), " ")]]

SplitIntoChunksMutantStrideChunkSize(text, chunk_size, overlap) ==
    IF chunk_size <= 0 THEN [raised |-> "ValueError", ret |-> None]
    ELSE IF overlap < 0 \/ overlap >= chunk_size
    THEN [raised |-> "ValueError", ret |-> None]
    ELSE LET words == Split(text)
             starts == Range(0, Len(words), chunk_size)
         IN  [raised |-> "none",
              ret |-> [j \in 1..Len(starts) |->
                          Join(Slice(words, starts[j], starts[j] + chunk_size), " ")]]

SplitIntoChunksMutantStridePlusOne(text, chunk_size, overlap) ==
    IF chunk_size <= 0 THEN [raised |-> "ValueError", ret |-> None]
    ELSE IF overlap < 0 \/ overlap >= chunk_size
    THEN [raised |-> "ValueError", ret |-> None]
    ELSE LET words == Split(text)
             starts == Range(0, Len(words), chunk_size - overlap + 1)
         IN  [raised |-> "none",
              ret |-> [j \in 1..Len(starts) |->
                          Join(Slice(words, starts[j], starts[j] + chunk_size), " ")]]

SplitIntoChunks(text, chunk_size, overlap) ==
    IF chunk_size <= 0 THEN [raised |-> "ValueError", ret |-> None]
    ELSE IF overlap < 0 \/ overlap >= chunk_size
    THEN [raised |-> "ValueError", ret |-> None]
    ELSE LET words == Split(text)
             starts == Range(0, Len(words), chunk_size - overlap)
         IN  [raised |-> "none",
              ret |-> [j \in 1..Len(starts) |->
                          Join(Slice(words, starts[j], starts[j] + chunk_size), " ")]]

\* The texts given to split_into_chunks are written from their tokens: token j
\* is the j-th of these words, so that no two tokens of a text are equal.
Words == << <<"a">>, <<"b", "b">>, <<"c">>, <<"d">>, <<"e">>, <<"f">>, <<"g">> >>

Tokens(n) == SubSeq(Words, 1, n)

\* the whitespace before the first token, between two tokens, after the last
Leads == { <<>>, <<" ">> }
Gaps == { <<" ">>, <<" ", "\n">> }
Trails == { <<>>, <<"\n">> }

RECURSIVE JoinSeq(_, _)
JoinSeq(parts, sep) ==
    IF parts = <<>> THEN <<>>
    ELSE IF Len(parts) = 1 THEN parts[1]
    ELSE parts[1] \o sep \o JoinSeq(Tail(parts), sep)

TextOf(tokens, lead, gap, trail) == lead \o JoinSeq(tokens, gap) \o trail

ChunkSizes == (0 - 1)..MaxChunk

\* tokens is history: the tokens the text was written from
DoSplitIntoChunks(tokens, text, chunk_size, overlap) ==
    LET o == SplitIntoChunks(text, chunk_size, overlap)
    IN  /\ last' = [op |-> "split_into_chunks",
                    args |-> [text |-> text, chunk_size |-> chunk_size, overlap |-> overlap],
                    tokens |-> tokens, raised |-> o.raised, ret |-> o.ret]
        /\ UNCHANGED <<chromaDirs, rootDb, personaDb, personaFiles, pipelines, returned,
                 transcriptFiles, chatbots>>

\* ------------------------------- TranscriptFetcher._parse_json3_subtitles
\* What json.loads returns: a list of items (kind "list"), any other value
\* (kind "other"), or an exception (kind "invalid"). An item or a segment that
\* is a dict is a record of type "dict" with the keys it has; one that is not
\* has another type.
SegValues ==
    { [type |-> "dict", text |-> <<>>],
      [type |-> "dict", text |-> <<"a">>],
      [type |-> "dict", text |-> <<"\n">>],
      [type |-> "dict", text |-> <<" ", "b", " ">>],
      [type |-> "dict"],
      [type |-> "str"] }

SegLists == UNION { [1..n -> SegValues] : n \in 0..MaxSegs }

Items ==
    { [type |-> "dict", segs |-> segs] : segs \in SegLists }
        \cup { [type |-> "dict"], [type |-> "str"] }

Json3Payloads ==
    { [kind |-> "list", items |-> items] :
          items \in UNION { [1..n -> Items] : n \in 0..2 } }
        \cup { [kind |-> "other"], [kind |-> "invalid"] }

\* the lines one item appends: for seg in item.get("segs", []) ...
RECURSIVE SegLines(_)
SegLines(segs) ==
    IF segs = <<>> THEN <<>>
    ELSE LET seg == Head(segs)
             text == IF "text" \in DOMAIN seg THEN seg.text ELSE <<>>
         IN  (IF seg.type = "dict" /\ text # <<>> THEN << Strip(text) >> ELSE <<>>)
                 \o SegLines(Tail(segs))

RECURSIVE ItemLines(_)
ItemLines(items) ==
    IF items = <<>> THEN <<>>
    ELSE LET item == Head(items)
             segs == IF "segs" \in DOMAIN item THEN item.segs ELSE <<>>
         IN  (IF item.type = "dict" THEN SegLines(segs) ELSE <<>>)
                 \o ItemLines(Tail(items))

ParseJson3Subtitles(payload) ==
    IF payload.kind = "invalid" THEN <<>>
    ELSE IF payload.kind = "list" THEN JoinSeq(ItemLines(payload.items), <<" ">>)
    ELSE JoinSeq(<<>>, <<" ">>)

DoParseJson3Subtitles(payload) ==
    /\ last' = [op |-> "_parse_json3_subtitles", args |-> [payload |-> payload],
                raised |-> "none", ret |-> ParseJson3Subtitles(payload)]
    /\ UNCHANGED <<chromaDirs, rootDb, personaDb, personaFiles, pipelines, returned,
                 transcriptFiles, chatbots>>

\* --------------------------------- TranscriptFetcher._parse_srt_subtitles
\* str.split(sep), sep not empty: the pieces between the occurrences of sep,
\* found from left to right (the empty string has the one piece "")
RECURSIVE SplitOnFrom(_, _, _, _)
SplitOnFrom(s, sep, piece, pieces) ==
    IF Len(s) < Len(sep) THEN Append(pieces, piece \o s)
    ELSE IF SubSeq(s, 1, Len(sep)) = sep
    THEN SplitOnFrom(SubSeq(s, Len(sep) + 1, Len(s)), sep, <<>>, Append(pieces, piece))
    ELSE SplitOnFrom(Tail(s), sep, Append(piece, Head(s)), pieces)

SplitOn(s, sep) == SplitOnFrom(s, sep, <<>>, <<>>)

\* str.isdigit() on the alphabet of the model
IsDigit(s) == s # <<>> /\ \A i \in 1..Len(s) : s[i] \in { "1", "2" }

\* the lines one block appends
BlockLines(block) ==
    LET block_lines == SplitOn(Strip(block), <<"\n">>)
        rest == SubSeq(block_lines, IF Len(block_lines) > 2 THEN 3 ELSE 1,
                       Len(block_lines))
        kept == SelectSeq(rest, LAMBDA line : Strip(line) # <<>> /\ ~IsDigit(Strip(line)))
    IN  [j \in 1..Len(kept) |-> Strip(kept[j])]

RECURSIVE BlocksLines(_)
BlocksLines(blocks) ==
    IF blocks = <<>> THEN <<>>
    ELSE BlockLines(Head(blocks)) \o BlocksLines(Tail(blocks))

ParseSrtSubtitles(srt_text) ==
    JoinSeq(BlocksLines(SplitOn(Strip(srt_text), <<"\n", "\n">>)), <<" ">>)

\* The texts given to _parse_srt_subtitles are written line by line: an empty
\* line, a line of one space, an index, and two lines of text.
SrtLines == { <<>>, <<" ">>, <<"1">>, <<"h">>, <<"k", " ">> }

SrtLineLists == UNION { [1..n -> SrtLines] : n \in 0..MaxLines }

\* lines is history: the lines the text was written from
DoParseSrtSubtitles(lines) ==
    LET srt_text == JoinSeq(lines, <<"\n">>)
    IN  /\ last' = [op |-> "_parse_srt_subtitles", args |-> [srt_text |-> srt_text],
                    lines |-> lines, raised |-> "none",
                    ret |-> ParseSrtSubtitles(srt_text)]
        /\ UNCHANGED <<chromaDirs, rootDb, personaDb, personaFiles, pipelines, returned,
                 transcriptFiles, chatbots>>

\* ------------------------------------------- utils/text_utils.truncate_text
\* seq[:j], j of either sign
SliceTo(seq, j) ==
    IF j >= 0 THEN SubSeq(seq, 1, Min(j, Len(seq)))
    ELSE SubSeq(seq, 1, IF Len(seq) + j > 0 THEN Len(seq) + j ELSE 0)

TruncateText(text, max_length, suffix) ==
    IF Len(text) <= max_length THEN text
    ELSE SliceTo(text, max_length - Len(suffix)) \o suffix

Letters == << "a", "b", "c", "d", "e", "f", "g" >>

TruncateTexts == { SubSeq(Letters, 1, n) : n \in 0..MaxTextLen }

Suffixes == { <<>>, <<".">>, <<".", ".", ".">> }

DoTruncateText(text, max_length, suffix) ==
    /\ last' = [op |-> "truncate_text",
                args |-> [text |-> text, max_length |-> max_length, suffix |-> suffix],
                raised |-> "none", ret |-> TruncateText(text, max_length, suffix)]
    /\ UNCHANGED <<chromaDirs, rootDb, personaDb, personaFiles, pipelines, returned,
                 transcriptFiles, chatbots>>

\* ------------------------------------------- TranscriptFetcher.fetch_transcript
\* preferred_langs
PreferredLangs == << "en", "en-US", "en-GB", "en-CA", "en-AU" >>

\* The caption languages of the payloads: two of the preference list, two not
CaptionLangs == { "en-US", "en", "fr", "de" }

\* the sequences of at most n distinct elements of S
DistinctSeqs(S, n) ==
    { q \in UNION { [1..m -> S] : m \in 0..n } :
          \A j, k \in 1..Len(q) : j # k => q[j] # q[k] }

\* One representation of the captions of a language: a dict with "ext" and
\* "url", either of which may be missing. The url names what it serves.
Representation(lang, kind) ==
    CASE kind = "noext" -> [url |-> << lang, "srt" >>]
      [] kind = "nourl" -> [ext |-> "json3"]
      [] OTHER -> [ext |-> kind, url |-> << lang, kind >>]

\* the representations a payload lists for each of its languages, in order
KindLists ==
    { <<>>, << "json3" >>, << "srt", "json3" >>, << "vtt", "json3" >>,
      << "noext" >>, << "nourl", "json3" >> }

\* A language mapping, info["subtitles"] or info["automatic_captions"]: a dict,
\* its keys in their order, each with its list of representations
LanguageMapping(langs, kinds) ==
    [j \in 1..Len(langs) |->
        [lang |-> langs[j],
         reps |-> [k \in 1..Len(kinds) |-> Representation(langs[j], kinds[k])]]]

SubtitleMappings ==
    { LanguageMapping(langs, kinds) :
          langs \in DistinctSeqs(CaptionLangs, MaxLangs), kinds \in KindLists }

AutomaticMappings ==
    { <<>>, LanguageMapping(<< "fr" >>, << "json3" >>),
      LanguageMapping(<< "en" >>, << "srt" >>) }

Titles == { << "a", "/", "b" >> }

\* What ydl.extract_info gives for a single video: None, an exception, or a
\* dict in which "title", "subtitles" and "automatic_captions" may be missing
VideoInfos ==
    { [kind |-> "none"], [kind |-> "raises"] }
      \cup { [kind |-> "dict"] @@ t @@ sub @@ auto :
                t \in { [title |-> x] : x \in Titles } \cup { <<>> },
                sub \in { [subtitles |-> m] : m \in SubtitleMappings } \cup { <<>> },
                auto \in { [automatic_captions |-> m] : m \in AutomaticMappings }
                            \cup { <<>> } }

\* dict.get(key, default)
Get(dict, key, default) == IF key \in DOMAIN dict THEN dict[key] ELSE default

\* requests.get(url): the text is served, an empty caption track is served,
\* the status is not 200, the request raises
HttpOutcomes == { "ok", "empty", "404", "raises" }

\* response.text for the url: a json3 track, or an srt track of one block,
\* whose one caption names the language
ResponseBody(url, http) ==
    IF url[2] = "json3"
    THEN [kind |-> "list",
          items |-> IF http = "empty" THEN <<>>
                    ELSE << [type |-> "dict",
                             segs |-> << [type |-> "dict", text |-> << url[1] >>] >>] >>]
    ELSE IF http = "empty" THEN <<>>
    ELSE JoinSeq(<< << "1" >>, << "t" >>, << url[1] >> >>, << "\n" >>)

\* the first preferred language among the available ones, else the first
\* available one ("": none)
RECURSIVE FirstPreferred(_, _)
FirstPreferred(preferred, available) ==
    IF preferred = <<>> THEN ""
    ELSE IF \E j \in 1..Len(available) : available[j] = Head(preferred)
    THEN Head(preferred)
    ELSE FirstPreferred(Tail(preferred), available)

SelectLanguageMutantFirstAvailable(available_langs) ==
    IF available_langs # <<>> THEN available_langs[1] ELSE ""

SelectLanguage(available_langs) ==
    LET selected_lang == FirstPreferred(PreferredLangs, available_langs)
    IN  IF selected_lang = "" /\ available_langs # <<>>
        THEN available_langs[1]
        ELSE selected_lang

\* TranscriptFetcher._extract_transcript_text: whether it returned None, the
\* text it returned otherwise, and its locals selected_lang and subtitle_data
\* (the one representation it went on with)
ExtractTranscriptText(info, http) ==
    LET nothing(lang, rep) ==
            [none |-> TRUE, text |-> <<>>, selected_lang |-> lang, representation |-> rep]
    IN  IF info.kind # "dict" THEN nothing("", <<>>)
        ELSE
        LET subtitles == IF Get(info, "subtitles", <<>>) # <<>>
                         THEN info.subtitles
                         ELSE Get(info, "automatic_captions", <<>>)
            available_langs == [j \in 1..Len(subtitles) |-> subtitles[j].lang]
            selected_lang == SelectLanguage(available_langs)
        IN  IF subtitles = <<>> \/ selected_lang = "" THEN nothing("", <<>>)
            ELSE
            LET subtitle_data ==
                    subtitles[CHOOSE j \in 1..Len(subtitles) :
                                  subtitles[j].lang = selected_lang].reps
            IN  IF subtitle_data = <<>> THEN nothing(selected_lang, <<>>)
                ELSE
                LET rep == subtitle_data[1]
                    ext == Get(rep, "ext", "srt")
                    parsed(text) == [none |-> FALSE, text |-> text,
                                     selected_lang |-> selected_lang,
                                     representation |-> << rep >>]
                IN  IF "url" \notin DOMAIN rep \/ http \in {"404", "raises"}
                    THEN nothing(selected_lang, << rep >>)
                    ELSE IF ext = "json3"
                    THEN parsed(ParseJson3Subtitles(ResponseBody(rep.url, http)))
                    ELSE IF ext = "srt"
                    THEN parsed(ParseSrtSubtitles(ResponseBody(rep.url, http)))
                    ELSE nothing(selected_lang, << rep >>)

\* re.sub(r'[<>:"/\\|?*]', "_", title)[:100]
FilenameLimit == 100

SanitizeFilename(title) ==
    SliceTo([j \in 1..Len(title) |->
                IF title[j] \in { "<", ">", ":", "\"", "/", "\\", "|", "?", "*" }
                THEN "_" ELSE title[j]],
            FilenameLimit)

\* output_path.write_text(transcript): the file is made or overwritten
WriteText(files, name, content) ==
    { f \in files : f.name # name } \cup { [name |-> name, content |-> content] }

\* TranscriptFetcher._fetch_single_video, output_path None. info2 is what the
\* second extract_info, in _extract_transcript_text, gives for the video.
FetchSingleVideoMutantWriteFirst(files, info, info2, http) ==
    LET e == ExtractTranscriptText(info2, http)
        name == SanitizeFilename(Get(info, "title", << "U", "n", "k", "n", "o", "w", "n" >>))
                    \o << ".txt" >>
    IN  IF e.none \/ e.text = <<>>
        THEN [files |-> WriteText(files, name, e.text), raised |-> "ValueError",
              ret |-> <<>>, extracted |-> e]
        ELSE [files |-> WriteText(files, name, e.text), raised |-> "none",
              ret |-> name, extracted |-> e]

FetchSingleVideo(files, info, info2, http) ==
    LET e == ExtractTranscriptText(info2, http)
        name == SanitizeFilename(Get(info, "title", << "U", "n", "k", "n", "o", "w", "n" >>))
                    \o << ".txt" >>
    IN  IF e.none \/ e.text = <<>>
        THEN [files |-> files, raised |-> "ValueError", ret |-> <<>>, extracted |-> e]
        ELSE [files |-> WriteText(files, name, e.text), raised |-> "none",
              ret |-> name, extracted |-> e]

\* what the second extract_info gives: the same as the first, None, an exception
Agains == { "same", "none", "raises" }

\* TranscriptFetcher.fetch_transcript for the url of a single video
FetchTranscript(files, info, again, http) ==
    IF info.kind = "raises"
    THEN [files |-> files, raised |-> "DownloadError", ret |-> <<>>,
          extracted |-> ExtractTranscriptText([kind |-> "none"], http)]
    ELSE IF info.kind = "none"
    THEN [files |-> files, raised |-> "ValueError", ret |-> <<>>,
          extracted |-> ExtractTranscriptText([kind |-> "none"], http)]
    ELSE FetchSingleVideo(files, info,
                          IF again = "same" THEN info ELSE [kind |-> again], http)

DoFetchTranscript(info, again, http) ==
    LET o == FetchTranscript(transcriptFiles, info, again, http)
    IN  /\ transcriptFiles' = o.files
        /\ last' = [op |-> "fetch_transcript",
                    args |-> [info |-> info, again |-> again, http |-> http],
                    raised |-> o.raised, ret |-> o.ret, extracted |-> o.extracted,
                    pre |-> [files |-> transcriptFiles, dirs |-> chromaDirs,
                             db |-> personaDb]]
        /\ UNCHANGED <<chromaDirs, rootDb, personaDb, personaFiles, pipelines, returned,
                       chatbots>>

\* ----------------------------------------------------------- PersonaChatbot
\* The messages a user sends; the generation service (ollama, external) answers
\* a prompt with a text of its own: here, a reply that names the message.
UserMessages == { "x", "y" }

ResponseText(user_message) == << "re: ", user_message >>

ChatMessage(role, content) == [role |-> role, content |-> content]

\* Where generate_response fails: nowhere; in the retrieval of the context; in
\* ollama.generate; in _save_persona, after the reply was appended.
ChatFailures == { "none", "retrieval", "generate", "save" }

\* f"Error generating response: {str(e)}"
ErrorMessage(e) == << "Error generating response: ", e >>

\* PersonaChatbot.generate_response, with _build_prompt: the storage, the
\* pipeline, the persona files and the chat history it leaves, the exception it
\* raised and the value it returned (the empty sequence: none)
GenerateResponseMutantErrorInHistory(c, p, dirs, db, files, user_message, fail) ==
    LET asked == Append(c.chat_history, ChatMessage("user", user_message))
        o == GetRelevantContext(p, dirs, db, user_message, None,
                                IF fail = "retrieval" THEN "call" ELSE "none")
        out(history, newfiles, raised, ret) ==
            [dirs |-> o.dirs, db |-> o.db, p |-> o.p, files |-> newfiles,
             c |-> [c EXCEPT !.chat_history = history], raised |-> raised, ret |-> ret]
    IN  IF o.raised # "none" THEN out(asked, files, o.raised, <<>>)
        ELSE IF c.persona = <<>> THEN out(asked, files, "AttributeError", <<>>)
        ELSE IF fail = "generate"
        THEN out(Append(asked, ChatMessage("assistant", ErrorMessage("generate"))),
                 files, "none", ErrorMessage("generate"))
        ELSE LET answered == Append(asked, ChatMessage("assistant", ResponseText(user_message)))
             IN  IF fail = "save"
                 THEN out(answered, files, "none", ErrorMessage("save"))
                 ELSE out(answered, files \cup {SafeName(p.persona_name)}, "none",
                          ResponseText(user_message))

GenerateResponse(c, p, dirs, db, files, user_message, fail) ==
    LET asked == Append(c.chat_history, ChatMessage("user", user_message))
        o == GetRelevantContext(p, dirs, db, user_message, None,
                                IF fail = "retrieval" THEN "call" ELSE "none")
        out(history, newfiles, raised, ret) ==
            [dirs |-> o.dirs, db |-> o.db, p |-> o.p, files |-> newfiles,
             c |-> [c EXCEPT !.chat_history = history], raised |-> raised, ret |-> ret]
    IN  IF o.raised # "none" THEN out(asked, files, o.raised, <<>>)
        ELSE IF c.persona = <<>> THEN out(asked, files, "AttributeError", <<>>)
        ELSE IF fail = "generate" THEN out(asked, files, "none", ErrorMessage("generate"))
        ELSE LET answered == Append(asked, ChatMessage("assistant", ResponseText(user_message)))
             IN  IF fail = "save"
                 THEN out(answered, files, "none", ErrorMessage("save"))
                 ELSE out(answered, files \cup {SafeName(p.persona_name)}, "none",
                          ResponseText(user_message))

\* the record of a call of chatbot i, with the state the call started from
ChatCall(op, i, args, raised, ret) ==
    [op |-> op, chatbot |-> i, persona_name |-> pipelines[i].persona_name,
     collection_name |-> pipelines[i].collection_name, args |-> args,
     raised |-> raised, ret |-> ret,
     pre |-> [persona |-> chatbots[i].persona, chat_history |-> chatbots[i].chat_history]]

DoGenerateResponse(i, user_message, fail) ==
    LET o == GenerateResponse(chatbots[i], pipelines[i], chromaDirs, personaDb,
                              personaFiles, user_message, fail)
    IN  /\ Len(chatbots[i].chat_history) + 2 <= MaxHistory
        /\ CanOpen(pipelines[i], personaDb, "none")
        /\ chromaDirs' = o.dirs
        /\ personaDb' = o.db
        /\ pipelines' = [pipelines EXCEPT ![i] = o.p]
        /\ personaFiles' = o.files
        /\ chatbots' = [chatbots EXCEPT ![i] = o.c]
        /\ last' = ChatCall("generate_response", i,
                            [user_message |-> user_message, fail |-> fail], o.raised, o.ret)
        /\ UNCHANGED <<rootDb, returned, transcriptFiles>>

\* PersonaChatbot.clear_history
DoClearHistory(i) ==
    /\ chatbots' = [chatbots EXCEPT ![i].chat_history = <<>>]
    /\ last' = ChatCall("clear_history", i, [fail |-> "none"], "none", None)
    /\ UNCHANGED <<chromaDirs, rootDb, personaDb, personaFiles, pipelines, returned,
                   transcriptFiles>>

\* PersonaChatbot(persona_name): a new chatbot, with a new pipeline, takes the
\* place of chatbot i
NewPersonaChatbot(i, persona_name) ==
    /\ pipelines' = [pipelines EXCEPT ![i] = RAGPipeline(persona_name)]
    /\ chatbots' = [chatbots EXCEPT ![i] =
                       PersonaChatbot(LoadPersona(persona_name, personaFiles))]
    /\ last' = [op |-> "PersonaChatbot", chatbot |-> i, persona_name |-> persona_name,
                collection_name |-> CollectionName(persona_name),
                args |-> [fail |-> "none"], raised |-> "none", ret |-> None,
                pre |-> [persona |-> chatbots[i].persona,
                         chat_history |-> chatbots[i].chat_history]]
    /\ UNCHANGED <<chromaDirs, rootDb, personaDb, personaFiles, returned, transcriptFiles>>

\* ---------------------------------------------------------- specifications
\* The calls of the two RAGPipeline objects, with storage failures.
Next ==
    \/ \E i \in PipelineIds, t \in Texts, f \in Failures : AddText(i, t, "manual", f)
    \/ \E i \in PipelineIds, t \in TranscriptPaths, f \in Failures :
           AddTranscript(i, t, "", f)
    \/ \E i \in PipelineIds, q \in Queries, k \in TopKs, f \in Failures :
           DoSimilaritySearch(i, q, k, f)
    \/ \E i \in PipelineIds, q \in Queries, k \in TopKs, f \in Failures :
           DoGetRelevantContext(i, q, k, f)
    \/ \E i \in PipelineIds, f \in Failures : DoGetCollectionStats(i, f)
    \/ \E i \in PipelineIds, f \in Failures : DoReset(i, f)

Spec == Init /\ [][Next]_vars

\* The calls of the knowledge base and of create_persona, among the writes of
\* the pipelines.
NextRegistry ==
    \/ \E i \in PipelineIds, t \in Texts : AddText(i, t, "manual", "none")
    \/ \E i \in PipelineIds, t \in TranscriptPaths : AddTranscript(i, t, "", "none")
    \/ \E order \in DirOrders(chromaDirs) : DoListPersonas(order)
    \/ \E n \in PersonaNames, f \in KbFailures : DoPersonaExists(n, f)
    \/ \E n \in PersonaNames, f \in KbFailures : DoDeletePersona(n, f)
    \/ \E n \in PersonaNames, paths \in PathLists : CreatePersona(n, paths)

SpecRegistry == Init /\ [][NextRegistry]_vars

\* The functions of the text, each applied once to an input, and list_personas
\* over the directories of some of the personas of ListedNames.
\* what an earlier run has left: the transcript it fetched, and the collection
\* of "Al" that add_transcript made of it
Earlier ==
    LET p == RAGPipeline(<<"A", "l">>)
        o == AddTranscriptOutcome(p, {}, [d \in CollectionNames |-> NoCollection(0)],
                                  "t1", "", "none")
    IN  [dirs |-> o.dirs, db |-> o.db, returned |-> o.ret,
         files |-> { [name |-> << "a", "_", "b", ".txt" >>, content |-> TranscriptText("t1")] }]

InitFunctions ==
    /\ \/ /\ chromaDirs \in SUBSET ListedDirs
          /\ personaDb = [d \in CollectionNames |-> NoCollection(0)]
          /\ returned = [d \in CollectionNames |-> 0]
          /\ transcriptFiles = {}
       \/ /\ chromaDirs = Earlier.dirs
          /\ personaDb = Earlier.db
          /\ returned = [d \in CollectionNames |->
                            IF d = CollectionName(<<"A", "l">>) THEN Earlier.returned ELSE 0]
          /\ transcriptFiles = Earlier.files
    /\ rootDb = {}
    /\ personaFiles = {}
    /\ pipelines = [i \in PipelineIds |-> RAGPipeline(<<"A", "l">>)]
    /\ chatbots = [i \in ChatbotIds |-> PersonaChatbot(<<>>)]
    /\ last = NoCall

NextFunctions ==
    /\ last = NoCall
    /\ \/ \E order \in DirOrders(chromaDirs) : DoListPersonas(order)
       \/ /\ chromaDirs \in { {}, Earlier.dirs }
          /\ \E info \in VideoInfos, again \in Agains, http \in HttpOutcomes :
                 DoFetchTranscript(info, again, http)
       \/ /\ chromaDirs = {}
          /\ \/ \E n \in KeyNames : DoCollectionKeys(n)
             \/ \E n \in 0..MaxTokens, lead \in Leads, gap \in Gaps, trail \in Trails,
                      size \in ChunkSizes, overlap \in ChunkSizes :
                    DoSplitIntoChunks(Tokens(n), TextOf(Tokens(n), lead, gap, trail),
                                      size, overlap)
             \/ \E payload \in Json3Payloads : DoParseJson3Subtitles(payload)
             \/ \E lines \in SrtLineLists : DoParseSrtSubtitles(lines)
             \/ \E text \in TruncateTexts, max_length \in 0..MaxTextLen,
                      suffix \in Suffixes :
                    DoTruncateText(text, max_length, suffix)

SpecFunctions == InitFunctions /\ [][NextFunctions]_vars

\* The transcripts the personas of the chat are created from
ChatPathLists == { <<>>, <<"t1">> }

\* Before the chat: nothing is stored, the pipelines are the chatbots' own
InitChat ==
    /\ Init
    /\ \A i \in PipelineIds : pipelines[i] = RAGPipeline(<<"A", "l">>)

\* The calls of a chatbot, among create_persona and the making of new chatbots.
NextChat ==
    \/ \E n \in PersonaNames, paths \in ChatPathLists : CreatePersona(n, paths)
    \/ \E i \in ChatbotIds, n \in PersonaNames : NewPersonaChatbot(i, n)
    \/ \E i \in ChatbotIds, m \in UserMessages, f \in ChatFailures :
           DoGenerateResponse(i, m, f)
    \/ \E i \in ChatbotIds : DoClearHistory(i)

SpecChat == InitChat /\ [][NextChat]_vars

\* ------------------------------------------------------------------ claims
IsAdd == last.op \in {"add_text", "add_transcript"}

ReadOnlyOps == {"similarity_search", "get_relevant_context", "get_collection_stats"}

\* what list_personas may return for the directories dirs
Listings(dirs) == { ListPersonas(order) : order \in DirOrders(dirs) }

\* the chunks an add_text / add_transcript call has cut
ChunksOfCall ==
    IF last.op = "add_text" THEN last.args.text ELSE TranscriptText(last.args.path)

\* C1: persona_exists(P) returns true iff a collection with the key derived from
\* P is persisted: true once an add through RAGPipeline(P) has created it.
C1_PersonaExistsIffCollection ==
    (last.op = "persona_exists" /\ last.args.fail = "none")
        => (last.ret <=> personaDb[last.collection_name].coll # None)

\* C2: delete_persona(P) never raises, and without a storage failure it returns
\* true iff a collection for P existed when it was called.
C2_DeletePersonaTrueIffExisted ==
    last.op = "delete_persona" =>
        /\ last.raised = "none"
        /\ last.args.fail = "none" => (last.ret <=> last.pre.coll.coll # None)

\* C3: after delete_persona(P) the persisted state of P is never partial: the
\* result is true and the collection, its directory (P is neither listed nor
\* reported to exist) and the metadata file are all gone, or the result is
\* false and the collection, the directories, the root database and the
\* metadata file are as they were before the call.
C3_DeletePersonaAllOrNothing ==
    last.op = "delete_persona" =>
        LET cn == last.collection_name
            file == SafeName(last.persona_name) \in personaFiles
        IN  \/ /\ last.ret = TRUE
               /\ personaDb[cn].coll = None
               /\ cn \notin rootDb
               /\ cn \notin chromaDirs
               /\ \A l \in Listings(chromaDirs) :
                      \A j \in 1..Len(l) : CollectionName(l[j]) # cn
               /\ ~PersonaExists(last.persona_name, rootDb, "none")
               /\ ~file
            \/ /\ last.ret = FALSE
               /\ personaDb[cn] = last.pre.coll
               /\ rootDb = last.pre.root
               /\ chromaDirs = last.pre.dirs
               /\ Listings(chromaDirs) = Listings(last.pre.dirs)
               /\ file = last.pre.file

\* delete_persona was called for a persona with a populated collection, a
\* directory and a metadata file
C3_Witness ==
    /\ last.op = "delete_persona"
    /\ last.args.fail = "none"
    /\ last.pre.coll.docs # <<>>
    /\ last.collection_name \in last.pre.dirs
    /\ last.pre.file

\* C4: whatever the collection held, reset() on a pipeline of the persona does
\* not raise, and afterwards the pipeline's document_count is 0 and its
\* similarity_search returns nothing.
C4_ResetLeavesNothing ==
    (last.op = "reset" /\ last.args.fail = "none") =>
        LET p == pipelines[last.pipeline]
            found == SimilaritySearch(p, chromaDirs, personaDb, "x", None, "none")
        IN  /\ last.raised = "none"
            /\ GetCollectionStats(p, chromaDirs, personaDb, "none").ret.document_count = 0
            /\ found.raised = "none"
            /\ found.ret = <<>>

\* C5: similarity_search, get_relevant_context and get_collection_stats for a
\* persona that never had a collection leave the persisted state as it was, so
\* list_personas returns what it returned before.
C5_ReadsCreateNothing ==
    (last.op \in ReadOnlyOps /\ last.pre.coll.created = 0) =>
        /\ personaDb[last.collection_name] = last.pre.coll
        /\ Listings(chromaDirs) = Listings(last.pre.dirs)

\* C6: an add that returns has returned the number of chunks it cut, and has
\* appended exactly that many records; nothing is deduplicated, so the count of
\* every collection is the sum of the values returned by the adds since a
\* collection of that name was last deleted.
C6_CountIsSumOfReturns ==
    /\ \A cn \in CollectionNames : Len(personaDb[cn].docs) = returned[cn]
    /\ (IsAdd /\ last.raised = "none") =>
           /\ last.ret = Len(ChunksOfCall)
           /\ Len(personaDb[last.collection_name].docs)
                  = Len(last.pre.coll.docs) + last.ret
           /\ SubSeq(personaDb[last.collection_name].docs, 1, Len(last.pre.coll.docs))
                  = last.pre.coll.docs

\* the same transcript was added a second time and is stored twice
C6_Witness ==
    /\ last.op = "add_transcript"
    /\ last.raised = "none"
    /\ last.ret = 1
    /\ Len(personaDb[last.collection_name].docs) = 2
    /\ personaDb[last.collection_name].docs[1] = personaDb[last.collection_name].docs[2]

\* C7: similarity_search(query, k), k >= 1, on a collection of n records
\* returns min(k, n) results, and returns nothing, without raising, when the
\* collection is empty or was never created.
C7_SearchReturnsMinKN ==
    (last.op = "similarity_search" /\ last.args.fail = "none") =>
        LET k == IF last.args.k = None THEN RetrievalTopK ELSE last.args.k
            n == Len(last.pre.coll.docs)
        IN  /\ last.raised = "none"
            /\ Len(last.ret) = Min(k, n)

\* (C7, for the record) the same statement for a call made through a pipeline
\* that has no Chroma object yet or whose Chroma object holds the collection
\* that exists: this one holds.
C7_HoldsThroughLiveHandle ==
    (last.op = "similarity_search" /\ last.args.fail = "none"
         /\ (last.pre.vectorstore = None \/ last.pre.vectorstore = last.pre.coll.coll)) =>
        LET k == IF last.args.k = None THEN RetrievalTopK ELSE last.args.k
            n == Len(last.pre.coll.docs)
        IN  /\ last.raised = "none"
            /\ Len(last.ret) = Min(k, n)

\* C8: a storage failure during similarity_search or get_relevant_context is not
\* propagated: the search returns nothing and the context is the "no context"
\* sentinel.
C8_RetrievalFailureDegrades ==
    (last.op \in {"similarity_search", "get_relevant_context"}
         /\ last.args.fail # "none") =>
        /\ last.raised = "none"
        /\ last.ret = IF last.op = "similarity_search" THEN <<>> ELSE NoContext

\* C9: get_collection_stats never raises; it returns the collection name and a
\* document_count that is the number of records when the storage was read, 0
\* when there was no collection and 0 when opening or reading the storage
\* failed.
C9_StatsNeverRaise ==
    last.op = "get_collection_stats" =>
        LET p == pipelines[last.pipeline]
            read == last.args.fail = "none" /\ Live(p, personaDb)
        IN  /\ last.raised = "none"
            /\ last.ret.collection_name = CollectionName(last.persona_name)
            /\ last.ret.document_count =
                   IF read THEN Len(personaDb[last.collection_name].docs) ELSE 0
            /\ last.pre.coll.coll = None => last.ret.document_count = 0

\* the count of a populated collection failed to be read
C9_Witness ==
    /\ last.op = "get_collection_stats"
    /\ last.args.fail = "call"
    /\ Len(personaDb[last.collection_name].docs) > 0
    /\ last.ret.document_count = 0

\* C10: a failing add (the transcript file is missing, or the storage raises)
\* propagates the error and leaves the collection as it was: no record of the
\* call is stored and no collection is created.
C10_FailedAddChangesNothing ==
    IsAdd =>
        /\ last.args.fail # "none" => last.raised # "none"
        /\ (last.op = "add_transcript" /\ ~TranscriptExists(last.args.path))
               => last.raised = "FileNotFoundError"
        /\ last.raised # "none" => personaDb[last.collection_name] = last.pre.coll

C12_ReadAfterWriteAcrossInstances ==
    (/\ last.op \in {"add_text", "add_transcript", "reset"}
     /\ last.raised = "none"
     /\ last.op = "reset" => last.pre.vectorstore # None) =>
        \A i \in PipelineIds \ {last.pipeline} :
            pipelines[i].collection_name = last.collection_name =>
                LET p == pipelines[i]
                    n == Len(personaDb[p.collection_name].docs)
                    stats == GetCollectionStats(p, chromaDirs, personaDb, "none")
                    found == SimilaritySearch(p, chromaDirs, personaDb, "x", None, "none")
                IN  /\ stats.ret.document_count = n
                    /\ found.raised = "none"
                    /\ Len(found.ret) = Min(RetrievalTopK, n)

\* C15: in every collection the chunk indices of the chunks of one source are
\* 0, 1, 2, ... without a repetition: no two records of the same source carry
\* the same chunk_id.
C15_ChunkIdsNeverReused ==
    \A cn \in CollectionNames :
        LET docs == personaDb[cn].docs
        IN  /\ \A j, m \in 1..Len(docs) :
                   (j # m /\ docs[j].metadata.source = docs[m].metadata.source)
                       => docs[j].metadata.chunk_id # docs[m].metadata.chunk_id
            /\ \A j \in 1..Len(docs) :
                   docs[j].metadata.chunk_id
                       = Cardinality({m \in 1..(j - 1) :
                             docs[m].metadata.source = docs[j].metadata.source})

\* C13: the key is "persona_" followed by the persona name with every space
\* made an underscore and every letter made lowercase; RAGPipeline,
\* persona_exists and delete_persona derive the same key; and a name that
\* differs from this one only in letter case, or only in leading or trailing
\* whitespace, derives the same key.
C13_KeyOfNameAlone ==
    last.op = "collection_name" =>
        LET name == last.args.persona_name
            key == last.ret.pipeline
        IN  /\ key = Str_persona_ \o [i \in 1..Len(name) |->
                         IF name[i] = " " THEN "_" ELSE LowerChar(name[i])]
            /\ last.ret.persona_exists = key
            /\ last.ret.delete_persona = key
            /\ \A other \in KeyNames :
                   (Lower(other) = Lower(name) \/ Strip(other) = Strip(name))
                       => CollectionName(other) = key

\* a key without its first eight characters (the prefix), underscores as spaces
KeyToName(key) ==
    [i \in 1..(Len(key) - Len(Str_persona_)) |->
        IF key[i + Len(Str_persona_)] = "_" THEN " " ELSE key[i + Len(Str_persona_)]]

\* C14: with the directories of n collections of pairwise distinct keys,
\* list_personas returns n pairwise distinct names: for each key, the key
\* without its prefix and with spaces for underscores.
C14_ListOnePerKey ==
    last.op = "list_personas" =>
        /\ Len(last.ret) = Cardinality(last.pre.dirs)
        /\ \A j, m \in 1..Len(last.ret) : j # m => last.ret[j] # last.ret[m]
        /\ { last.ret[j] : j \in 1..Len(last.ret) }
               = { KeyToName(key) : key \in last.pre.dirs }

IsSplit == last.op = "split_into_chunks"

FirstN(seq, n) == SubSeq(seq, 1, Min(n, Len(seq)))

LastN(seq, n) == SubSeq(seq, Len(seq) - Min(n, Len(seq)) + 1, Len(seq))

\* the tokens of the chunks a split_into_chunks call returned
ChunkTokens == [j \in 1..Len(last.ret) |-> Split(last.ret[j])]

\* C16: split_into_chunks raises ValueError, returning no chunk, exactly when
\* chunk_size <= 0 or overlap < 0 or overlap >= chunk_size; with any other
\* parameters it returns, whatever the text.
C16_InvalidParametersExactly ==
    IsSplit =>
        LET invalid == \/ last.args.chunk_size <= 0
                       \/ last.args.overlap < 0
                       \/ last.args.overlap >= last.args.chunk_size
        IN  /\ invalid => (last.raised = "ValueError" /\ last.ret = None)
            /\ ~invalid => last.raised = "none"

\* the overlap equals a positive chunk_size: refused
C16_Witness ==
    /\ IsSplit
    /\ last.args.chunk_size > 0
    /\ last.args.overlap = last.args.chunk_size
    /\ last.raised = "ValueError"

\* C17: for a text of N tokens and valid parameters the result has
\* ceil(N / step) chunks, step = chunk_size - overlap, the j-th (from 0) being
\* the tokens j*step .. min(j*step + chunk_size, N) - 1 joined by single
\* spaces; a text without a token gives no chunk.
C17_ChunksAreTheWindows ==
    (IsSplit /\ last.raised = "none") =>
        LET N == Len(last.tokens)
            step == last.args.chunk_size - last.args.overlap
        IN  /\ Len(last.ret) = (N + step - 1) \div step
            /\ \A j \in 0..(Len(last.ret) - 1) :
                   last.ret[j + 1] =
                       JoinSeq(SubSeq(last.tokens, j * step + 1,
                                      Min(j * step + last.args.chunk_size, N)),
                               <<" ">>)
            /\ N = 0 => last.ret = <<>>

\* a text that begins with whitespace, cut with an overlap into several chunks
\* of which the last is shorter
C17_Witness ==
    /\ IsSplit
    /\ last.raised = "none"
    /\ last.args.overlap >= 1
    /\ last.args.text # <<>> /\ IsSpace(last.args.text[1])
    /\ Len(last.ret) >= 2
    /\ Len(ChunkTokens[Len(last.ret)]) < last.args.chunk_size

\* chunks a and b share exactly n tokens at their boundary: the last n tokens of
\* a are the first n tokens of b, and they have no other token in common
SharesAtBoundary(a, b, n) ==
    /\ Len(a) >= n
    /\ Len(b) >= n
    /\ LastN(a, n) = FirstN(b, n)
    /\ Cardinality({ a[i] : i \in 1..Len(a) } \cap { b[i] : i \in 1..Len(b) }) = n

\* C18 as stated: every chunk has at most chunk_size tokens, and two consecutive
\* chunks share exactly overlap tokens at their boundary, unless the second of
\* them is the final chunk and is shorter.
C18_OverlapExceptFinalChunk ==
    (IsSplit /\ last.raised = "none") =>
        /\ \A j \in 1..Len(last.ret) : Len(ChunkTokens[j]) <= last.args.chunk_size
        /\ \A j \in 1..(Len(last.ret) - 1) :
               \/ /\ j + 1 = Len(last.ret)
                  /\ Len(ChunkTokens[j + 1]) < last.args.chunk_size
               \/ SharesAtBoundary(ChunkTokens[j], ChunkTokens[j + 1], last.args.overlap)

\* C18, amended: every chunk has at most chunk_size tokens; two consecutive
\* chunks share exactly overlap tokens at their boundary when the second has at
\* least overlap tokens, and otherwise (the trailing chunks that start less than
\* overlap tokens before the end, of which there may be several) the second is
\* made of the last tokens of the first.
C18_OverlapExceptShortChunks ==
    (IsSplit /\ last.raised = "none") =>
        /\ \A j \in 1..Len(last.ret) : Len(ChunkTokens[j]) <= last.args.chunk_size
        /\ \A j \in 1..(Len(last.ret) - 1) :
               LET a == ChunkTokens[j]
                   b == ChunkTokens[j + 1]
               IN  IF Len(b) >= last.args.overlap
                   THEN SharesAtBoundary(a, b, last.args.overlap)
                   ELSE SharesAtBoundary(a, b, Len(b)) /\ Len(b) < Len(a)

\* a chunk that is not the final one has fewer than overlap tokens
C18_Witness ==
    /\ IsSplit
    /\ last.raised = "none"
    /\ Len(last.ret) >= 3
    /\ Len(ChunkTokens[Len(last.ret) - 1]) < last.args.overlap

\* the first step tokens of each chunk (all of them when it has fewer), one
\* chunk after the other
RECURSIVE UniqueSpans(_, _)
UniqueSpans(chunks, step) ==
    IF chunks = <<>> THEN <<>>
    ELSE FirstN(Head(chunks), step) \o UniqueSpans(Tail(chunks), step)

\* C19: for valid parameters the first chunk_size - overlap tokens of every
\* chunk (all of them when it has fewer), in chunk order, are the tokens of the
\* text: none dropped, none twice, none out of order.
C19_ChunksCoverTheText ==
    (IsSplit /\ last.raised = "none") =>
        UniqueSpans(ChunkTokens, last.args.chunk_size - last.args.overlap) = last.tokens

\* a text longer than a chunk, cut with an overlap, whose last chunk is partial
C19_Witness ==
    /\ IsSplit
    /\ last.raised = "none"
    /\ last.args.overlap >= 1
    /\ Len(last.tokens) > last.args.chunk_size
    /\ Len(last.tokens) % (last.args.chunk_size - last.args.overlap) # 0

\* the texts of the segments of a payload of caption events, in event order and
\* then segment order
RECURSIVE SegmentTexts(_)
SegmentTexts(items) ==
    IF items = <<>> THEN <<>>
    ELSE [j \in 1..Len(Head(items).segs) |-> Head(items).segs[j].text]
             \o SegmentTexts(Tail(items))

\* a payload of caption events: every item has its list of segments, every
\* segment its text
IsCaptionEvents(payload) ==
    /\ payload.kind = "list"
    /\ \A j \in 1..Len(payload.items) :
           /\ payload.items[j].type = "dict"
           /\ "segs" \in DOMAIN payload.items[j]
           /\ \A m \in 1..Len(payload.items[j].segs) :
                  /\ payload.items[j].segs[m].type = "dict"
                  /\ "text" \in DOMAIN payload.items[j].segs[m]

\* C20: for a payload of caption events the result is the trimmed segment
\* texts, in event order then segment order, without the empty ones, joined by
\* single spaces: it has no space at its start or end and no two spaces in a row.
C20_SegmentsTrimmedAndJoined ==
    (last.op = "_parse_json3_subtitles" /\ IsCaptionEvents(last.args.payload)) =>
        LET texts == SegmentTexts(last.args.payload.items)
            trimmed == [j \in 1..Len(texts) |-> Strip(texts[j])]
            r == last.ret
        IN  /\ r = JoinSeq(SelectSeq(trimmed, LAMBDA t : t # <<>>), <<" ">>)
            /\ r # <<>> => (~IsSpace(r[1]) /\ ~IsSpace(r[Len(r)]))
            /\ \A i \in 1..(Len(r) - 1) : ~(IsSpace(r[i]) /\ IsSpace(r[i + 1]))

\* the blocks of a list of lines: the lines between two blank lines
RECURSIVE BlocksAtBlankLines(_, _, _)
BlocksAtBlankLines(lines, block, blocks) ==
    IF lines = <<>> THEN Append(blocks, block)
    ELSE IF Strip(Head(lines)) = <<>>
    THEN BlocksAtBlankLines(Tail(lines), <<>>, Append(blocks, block))
    ELSE BlocksAtBlankLines(Tail(lines), Append(block, Head(lines)), blocks)

\* the lines that survive of one block, trimmed
SurvivingLines(block) ==
    LET rest == IF Len(block) > 2 THEN SubSeq(block, 3, Len(block)) ELSE block
        kept == SelectSeq(rest, LAMBDA line : Strip(line) # <<>> /\ ~IsDigit(Strip(line)))
    IN  [j \in 1..Len(kept) |-> Strip(kept[j])]

RECURSIVE AllSurvivingLines(_)
AllSurvivingLines(blocks) ==
    IF blocks = <<>> THEN <<>>
    ELSE SurvivingLines(Head(blocks)) \o AllSurvivingLines(Tail(blocks))

\* C21: the text is cut into blocks at its blank lines; a block of more than
\* two lines loses its first two lines, a block of two or fewer keeps them all;
\* blank and purely numeric lines are dropped; the result is the surviving
\* lines, trimmed, in order, joined by single spaces.
C21_SrtBlocksAtBlankLines ==
    last.op = "_parse_srt_subtitles" =>
        last.ret = JoinSeq(AllSurvivingLines(BlocksAtBlankLines(last.lines, <<>>, <<>>)),
                           <<" ">>)

\* C25: truncate_text returns the text as it is when it has at most max_length
\* characters; otherwise the result ends with the suffix and has exactly
\* max_length characters; so the result never has more than max_length
\* characters.
C25_TruncateWithinMaxLength ==
    last.op = "truncate_text" =>
        LET text == last.args.text
            suffix == last.args.suffix
        IN  /\ Len(text) <= last.args.max_length => last.ret = text
            /\ Len(text) > last.args.max_length =>
                   /\ Len(last.ret) = last.args.max_length
                   /\ LastN(last.ret, Len(suffix)) = suffix
            /\ Len(last.ret) <= last.args.max_length

\* the pipeline and the storage a call of a pipeline started from
PrePipeline == [pipelines[last.pipeline] EXCEPT !.vectorstore = last.pre.vectorstore]

PreDb == [personaDb EXCEPT ![last.collection_name] = last.pre.coll]

\* C23: get_relevant_context returns "No relevant context found." exactly when
\* the search finds nothing, the same string for a collection that does not
\* exist and for one that is empty; otherwise it returns, for each result in
\* the order of the search (nearest first), the block "[Source: <source>]\n
\* <content>", the blocks joined by "\n\n---\n\n".
C23_ContextIsSentinelOrBlocks ==
    (last.op = "get_relevant_context" /\ last.raised = "none") =>
        LET found == SimilaritySearch(PrePipeline, last.pre.dirs, PreDb,
                                      last.args.query, last.args.k, last.args.fail).ret
            n == Len(found)
        IN  /\ last.ret = NoContext <=> found = <<>>
            /\ (last.pre.coll.coll = None \/ last.pre.coll.docs = <<>>)
                   => last.ret = << "No relevant context found." >>
            /\ found # <<>> =>
                   /\ Len(last.ret) = 5 * n - 1
                   /\ \A j \in 1..n :
                          /\ last.ret[5 * j - 4] = "[Source: "
                          /\ last.ret[5 * j - 3] = found[j].metadata.source
                          /\ last.ret[5 * j - 2] = "]\n"
                          /\ last.ret[5 * j - 1] = found[j].content
                          /\ j < n => last.ret[5 * j] = "\n\n---\n\n"
                   /\ \A j, m \in 1..n :
                          j < m => Score(last.args.query, found[j].content)
                                       <= Score(last.args.query, found[m].content)

\* the context has two blocks, and the first is the chunk stored second
C23_Witness ==
    /\ last.op = "get_relevant_context"
    /\ last.raised = "none"
    /\ Len(last.ret) = 9
    /\ last.ret[4] = personaDb[last.collection_name].docs[2].content
    /\ last.ret[4] # personaDb[last.collection_name].docs[1].content

\* the chunks of transcript paths, each with its source, in the order of the paths
RECURSIVE ChunksWithSource(_)
ChunksWithSource(paths) ==
    IF paths = <<>> THEN <<>>
    ELSE [j \in 1..Len(TranscriptText(Head(paths))) |->
             [content |-> TranscriptText(Head(paths))[j], source |-> Head(paths)]]
             \o ChunksWithSource(Tail(paths))

\* C27: create_persona adds the transcripts in the order of the list and writes
\* the persona file after the last: when the j-th path fails, the error
\* propagates, no persona file is written, and the chunks of the paths before
\* the j-th are in the collection; when it returns, the file is written and the
\* chunks of every path are in the collection.
C27_MetadataAfterAllTranscripts ==
    last.op = "create_persona" =>
        LET paths == last.args.paths
            missing == { j \in 1..Len(paths) : ~TranscriptExists(paths[j]) }
            added == IF missing = {} THEN paths
                     ELSE SubSeq(paths, 1, (CHOOSE j \in missing : \A m \in missing : j <= m) - 1)
            docs == personaDb[last.collection_name].docs
            stored == [j \in 1..Len(docs) |->
                          [content |-> docs[j].content, source |-> docs[j].metadata.source]]
            before == [j \in 1..Len(last.pre.coll.docs) |->
                          [content |-> last.pre.coll.docs[j].content,
                           source |-> last.pre.coll.docs[j].metadata.source]]
            file == SafeName(last.persona_name) \in personaFiles
        IN  /\ stored = before \o ChunksWithSource(added)
            /\ missing = {} => (last.raised = "none" /\ file)
            /\ missing # {} => (last.raised = "FileNotFoundError" /\ (file <=> last.pre.file))

\* the second path failed: the chunk of the first is stored and there is no
\* persona file
C27_Witness ==
    /\ last.op = "create_persona"
    /\ last.raised = "FileNotFoundError"
    /\ Len(personaDb[last.collection_name].docs) = Len(last.pre.coll.docs) + 1
    /\ SafeName(last.persona_name) \notin personaFiles

\* ------------------------------------------------------------------ the chat
IsGenerate == last.op = "generate_response"

IsErrorString(ret) == ret # <<>> /\ ret[1] = "Error generating response: "

\* C26: for a chatbot whose persona is None (a knowledge base, no persona
\* file), generate_response returns a string -- the generated text, or an
\* "Error generating response: ..." message when the generation fails -- and
\* never raises. (Stated for the calls whose retrieval works.)
C26_NoPersonaNeverRaises ==
    (IsGenerate /\ last.pre.persona = <<>> /\ last.args.fail # "retrieval")
        => /\ last.raised = "none"
           /\ \/ last.ret = ResponseText(last.args.user_message)
              \/ IsErrorString(last.ret)

\* the chat history of the last call's chatbot
History == chatbots[last.chatbot].chat_history

\* the call got as far as the generation: the context was retrieved and the
\* prompt was built
Generating ==
    IsGenerate /\ last.args.fail # "retrieval" /\ last.pre.persona # <<>>

\* C28: a new PersonaChatbot has an empty chat_history and clear_history
\* empties it; generate_response appends the user message before generating,
\* then exactly one assistant message when the generation succeeds, and nothing
\* more, returning an error string, when the generation fails; in every state
\* each assistant message of a history comes right after the user message that
\* produced it.
C28_HistoryEvolution ==
    /\ last.op \in {"PersonaChatbot", "clear_history"} => History = <<>>
    /\ IsGenerate =>
          LET asked == Append(last.pre.chat_history,
                              ChatMessage("user", last.args.user_message))
          IN  /\ Len(History) >= Len(asked)
              /\ SubSeq(History, 1, Len(asked)) = asked
              /\ Len(History) <= Len(asked) + 1
              /\ (Generating /\ last.args.fail = "none")
                    => /\ Len(History) = Len(asked) + 1
                       /\ History[Len(History)].role = "assistant"
                       /\ History[Len(History)].content = last.ret
                       /\ last.raised = "none"
              /\ (Generating /\ last.args.fail = "generate")
                    => /\ History = asked
                       /\ last.raised = "none"
                       /\ IsErrorString(last.ret)
    /\ \A i \in ChatbotIds : \A j \in 1..Len(chatbots[i].chat_history) :
          LET h == chatbots[i].chat_history
          IN  h[j].role = "assistant"
                 => /\ j > 1
                    /\ h[j - 1].role = "user"
                    /\ h[j].content = ResponseText(h[j - 1].content)

\* a reply, then a message left without a reply by a failed generation, in a
\* history that a reply already ended
C28_Witness ==
    /\ Generating /\ last.args.fail = "generate"
    /\ Len(last.pre.chat_history) = 2
    /\ last.pre.chat_history[2].role = "assistant"
    /\ Len(History) = 3

\* ----------------------------------------------------------- the transcripts
\* a fetch of a video whose two extractions gave the same payload
IsFetch ==
    /\ last.op = "fetch_transcript"
    /\ last.args.info.kind = "dict"
    /\ last.args.again = "same"

\* the language mapping of the payload: its subtitles, or, without any, its
\* automatic captions (empty: the payload has neither)
MappingOf(info) ==
    IF "subtitles" \in DOMAIN info /\ info.subtitles # <<>> THEN info.subtitles
    ELSE IF "automatic_captions" \in DOMAIN info THEN info.automatic_captions
    ELSE <<>>

LangsOf(mapping) == { mapping[j].lang : j \in 1..Len(mapping) }

\* C22: the selected caption language is the first entry of the preference
\* list (en, en-US, en-GB, en-CA, en-AU) that the payload's mapping holds; if
\* it holds none and is not empty, a language of the payload is selected, the
\* same for the same payload (the first it lists); and the one representation
\* used is the first the payload lists for that language.
C22_LanguageSelection ==
    (IsFetch /\ MappingOf(last.args.info) # <<>>) =>
        LET mapping == MappingOf(last.args.info)
            selected == last.extracted.selected_lang
            present == { j \in 1..Len(PreferredLangs) : PreferredLangs[j] \in LangsOf(mapping) }
        IN  /\ selected \in LangsOf(mapping)
            /\ present # {} =>
                  \E j \in present : /\ selected = PreferredLangs[j]
                                     /\ \A k \in present : j <= k
            /\ present = {} => selected = mapping[1].lang
            /\ \A j \in 1..Len(mapping) :
                  (mapping[j].lang = selected /\ mapping[j].reps # <<>>)
                      => last.extracted.representation = << mapping[j].reps[1] >>

\* en-US is listed before en, each with two representations: en is selected,
\* and its first representation gives the text
C22_Witness ==
    /\ IsFetch
    /\ Len(MappingOf(last.args.info)) = 2
    /\ MappingOf(last.args.info)[1].lang = "en-US"
    /\ MappingOf(last.args.info)[2].lang = "en"
    /\ Len(MappingOf(last.args.info)[2].reps) = 2
    /\ last.extracted.selected_lang = "en"
    /\ last.raised = "none"

====
